---- MODULE Spec2Model ----
(***************************************************************************)
(* A model of src/app.py: the respiratory-sound prediction service.        *)
(*                                                                         *)
(*   - the four transformers of create_pipeline (AudioLoader, AudioTrimmer,*)
(*     FeatureExtractor, FeatureStatisticsCalculator),                     *)
(*   - predict_condition (model lookup, inference, label mapping),         *)
(*   - the Flask handler predict() run by several requests at once over a  *)
(*     shared temp directory.                                              *)
(*                                                                         *)
(* Python dicts are TLA+ functions over their key sets, numpy arrays are   *)
(* sequences, and a raised exception is a value of the step that raised.   *)
(***************************************************************************)
EXTENDS Integers, Sequences, FiniteSets, TLC

VARIABLES
    \* ---- AudioTrimmer (SpecTrim)
    audio,            \* the dict given to AudioTrimmer.transform
    target_duration,  \* AudioTrimmer.target_duration, in milliseconds
    trimmed,          \* AudioTrimmer.transform(audio)
    retrimmed,        \* AudioTrimmer.transform(trimmed)
    trim_pc,          \* "input" | "trimmed" | "retrimmed"
    \* ---- FeatureExtractor and FeatureStatisticsCalculator (SpecStats)
    recordings,       \* the dict of loaded audio given to the pipeline's stages
    features,         \* the dict given to FeatureStatisticsCalculator.transform
    from_pipeline,    \* TRUE when features came out of the pipeline's stages
    table,            \* the DataFrame FeatureStatisticsCalculator.transform returns
    stat_pc,          \* "input" | "given" | "features" | "done" | "raised"
    \* ---- predict_condition's inference (SpecPredict)
    classes,          \* model.classes_ of the loaded classifier
    prediction,       \* model.predict(features_df)[0]
    probabilities,    \* model.predict_proba(features_df)[0]
    result,           \* the dict predict_condition returns
    pred_pc,          \* "loaded" | "done"
    \* ---- the handler predict() and the requests it serves (Spec)
    fs,               \* the files written by the handler: path -> content
    model_exists,     \* os.path.exists('respiratory_classifier.pkl')
    pc,               \* where each request is in predict()
    has_file,         \* 'file' in request.files
    file_filename,    \* file.filename of request.files['file']
    loaded,           \* the content AudioLoader read for the request
    response,         \* what the handler returned
    saved,            \* history: file.save returned for the request
    wrote,            \* history: the request opened a file for writing
    invoked           \* history: the request called predict_condition

trim_vars == <<audio, target_duration, trimmed, retrimmed, trim_pc>>
stat_vars == <<recordings, features, from_pipeline, table, stat_pc>>
pred_vars == <<classes, prediction, probabilities, result, pred_pc>>
http_vars == <<fs, model_exists, pc, has_file, file_filename, loaded, response,
               saved, wrote, invoked>>
vars == <<trim_vars, stat_vars, pred_vars, http_vars>>
other_than_trim == <<stat_vars, pred_vars, http_vars>>
other_than_stat == <<trim_vars, pred_vars, http_vars>>
other_than_pred == <<trim_vars, stat_vars, http_vars>>
other_than_http == <<trim_vars, stat_vars, pred_vars>>

(***************************************************************************)
(* Bounds of the model.                                                    *)
(***************************************************************************)
MaxLen == 4        \* longest input waveform, in samples
MaxRate == 2       \* largest sample rate
NumRequests == 2   \* requests served, at once or one after the other

Requests == 1..NumRequests

Samples == {-1, 0, 1}
SampleRates == 0..MaxRate
\* target_duration defaults to 7.856 s (app.py:43); the constructor takes any
\* duration, and the shorter ones make the truncating branch reachable at
\* small sample rates.
DefaultDurationMs == 7856
Durations == {500, 1500, DefaultDurationMs}
TrimFiles == {"a.wav"}

Waveforms == UNION {[1..n -> Samples] : n \in 0..MaxLen}

(***************************************************************************)
(* Python and numpy primitives used by AudioTrimmer.transform.             *)
(***************************************************************************)
\* int(num / den) for den > 0: Python's int() truncates toward zero.
PyInt(num, den) ==
    IF num >= 0 THEN num \div den ELSE -((-num) \div den)

\* int(self.target_duration * audio_info['sample_rate'])
TargetSamples(duration_ms, sample_rate) ==
    PyInt(duration_ms * sample_rate, 1000)

Zeros(k) == [i \in 1..k |-> 0]

\* A faulty pad: np.pad(data, (k, 0)), the zeros put before the data.
NpPadBefore(data, k) == Zeros(k) \o data

\* np.pad(data, (0, k)): k zeros appended after the data.
NpPad(data, k) == data \o Zeros(k)

\* A faulty slice: data[:n + 1], one sample too many.
SliceToInclusive(data, n) ==
    SubSeq(data, 1, IF n + 1 < Len(data) THEN n + 1 ELSE Len(data))

\* data[:n]: the first n items; a negative n counts from the end.
SliceTo(data, n) ==
    LET stop == IF n >= 0 THEN (IF n < Len(data) THEN n ELSE Len(data))
                ELSE (IF Len(data) + n > 0 THEN Len(data) + n ELSE 0)
    IN  SubSeq(data, 1, stop)

\* The loop body of AudioTrimmer.transform for one entry of X.
TrimOne(audio_info, duration_ms) ==
    LET target_samples == TargetSamples(duration_ms, audio_info.sample_rate)
        data == audio_info.data
    IN  [data |-> IF Len(data) < target_samples
                  THEN NpPad(data, target_samples - Len(data))
                  ELSE SliceTo(data, target_samples),
         sample_rate |-> audio_info.sample_rate,
         duration |-> duration_ms]

AudioTrimmer_transform(X, duration_ms) ==
    [filename \in DOMAIN X |-> TrimOne(X[filename], duration_ms)]

\* The trimmer's output is again a dict of data and sample_rate, so it can be
\* given to the trimmer once more.
AsAudio(X) ==
    [filename \in DOMAIN X |->
        [data |-> X[filename].data, sample_rate |-> X[filename].sample_rate]]

(***************************************************************************)
(* SpecTrim: AudioTrimmer.transform applied to every bounded input.        *)
(***************************************************************************)
\* The empty dict and the empty table: what a variable holds before the step
\* that assigns it has run.
NoAudio == [filename \in {} |-> [data |-> <<>>, sample_rate |-> 0]]
NoFeatures == [filename \in {} |-> [f \in {} |-> "array"]]
NoTable == [rows |-> 0, columns |-> [c \in {} |-> "float"]]
NoFiles == [path \in {} |-> <<>>]
NoResponse == [status |-> 0, body |-> "none"]
NoResult == [prediction |-> "", probability |-> 0,
             all_probabilities |-> [k \in {} |-> 0]]

TrimInit ==
    /\ \E files \in SUBSET TrimFiles :
          audio \in [files -> [data : Waveforms, sample_rate : SampleRates]]
    /\ target_duration \in Durations
    /\ trimmed = NoAudio
    /\ retrimmed = NoAudio
    /\ trim_pc = "input"
    /\ recordings = NoAudio
    /\ features = NoFeatures
    /\ from_pipeline = FALSE
    /\ table = NoTable
    /\ stat_pc = "input"
    /\ classes = <<>>
    /\ prediction = 0
    /\ probabilities = <<>>
    /\ result = NoResult
    /\ pred_pc = "loaded"
    /\ fs = NoFiles
    /\ model_exists = TRUE
    /\ pc = [r \in Requests |-> "idle"]
    /\ has_file = [r \in Requests |-> FALSE]
    /\ file_filename = [r \in Requests |-> ""]
    /\ loaded = [r \in Requests |-> <<>>]
    /\ response = [r \in Requests |-> NoResponse]
    /\ saved = [r \in Requests |-> FALSE]
    /\ wrote = [r \in Requests |-> FALSE]
    /\ invoked = [r \in Requests |-> FALSE]

Trim ==
    /\ trim_pc = "input"
    /\ trimmed' = AudioTrimmer_transform(audio, target_duration)
    /\ trim_pc' = "trimmed"
    /\ UNCHANGED <<audio, target_duration, retrimmed>>
    /\ UNCHANGED other_than_trim

Retrim ==
    /\ trim_pc = "trimmed"
    /\ retrimmed' = AudioTrimmer_transform(AsAudio(trimmed), target_duration)
    /\ trim_pc' = "retrimmed"
    /\ UNCHANGED <<audio, target_duration, trimmed>>
    /\ UNCHANGED other_than_trim

TrimNext == Trim \/ Retrim

SpecTrim == TrimInit /\ [][TrimNext]_vars

(***************************************************************************)
(* C1: whatever the length of the input waveform and the sample rate,      *)
(* AudioTrimmer.transform returns, for every file, a waveform of exactly   *)
(* int(target_duration * sample_rate) samples.                             *)
(***************************************************************************)
C1_TrimmedLengthIsTarget ==
    trim_pc # "input" =>
        /\ DOMAIN trimmed = DOMAIN audio
        /\ \A f \in DOMAIN audio :
              Len(trimmed[f].data) =
                  (target_duration * audio[f].sample_rate) \div 1000

\* A waveform longer than a target of at least one sample has been cut.
C1_Witness ==
    /\ trim_pc = "trimmed"
    /\ \E f \in DOMAIN audio :
          /\ Len(trimmed[f].data) >= 1
          /\ Len(audio[f].data) > Len(trimmed[f].data)

(***************************************************************************)
(* C2: the output keeps the input's samples in order from the start: its   *)
(* i-th sample is the input's i-th sample where the input has one and 0    *)
(* after the input's end; and trimming the output again returns it         *)
(* unchanged.                                                              *)
(***************************************************************************)
C2_PrefixThenZerosAndIdempotent ==
    /\ trim_pc # "input" =>
          \A f \in DOMAIN trimmed :
              \A i \in 1..Len(trimmed[f].data) :
                  trimmed[f].data[i] =
                      IF i <= Len(audio[f].data) THEN audio[f].data[i] ELSE 0
    /\ trim_pc = "retrimmed" => retrimmed = trimmed

\* A waveform with a non-zero sample, shorter than the target, has been
\* padded and trimmed a second time.
C2_Witness ==
    /\ trim_pc = "retrimmed"
    /\ \E f \in DOMAIN audio :
          /\ Len(audio[f].data) < Len(trimmed[f].data)
          /\ \E i \in 1..Len(audio[f].data) : audio[f].data[i] # 0

(***************************************************************************)
(* FeatureExtractor and FeatureStatisticsCalculator.                       *)
(*                                                                         *)
(* A feature array is known by its kind only: "array" (at least one        *)
(* value) or "empty" (no value, on which np.max raises).  A DataFrame is   *)
(* its row count and its columns, each with the dtype pandas infers:       *)
(* "object" for the strings of 'filename', "float" for the statistics.     *)
(***************************************************************************)
\* The keys of the dict FeatureExtractor.transform builds per file.
FeatureNames ==
    {"chroma_stft", "mfcc", "mel_spectrogram", "spectral_contrast",
     "spectral_centroid", "spectral_bandwidth", "spectral_rolloff",
     "zero_crossing_rate"}

FeatureExtractor_transform(X) ==
    [filename \in DOMAIN X |-> [feature_name \in FeatureNames |-> "array"]]

StatNames == {"mean", "std", "max", "min"}

\* f'{feature_name}_mean' and its three siblings.
Column(feature_name, stat) == feature_name \o "_" \o stat

\* file_stats of one file: 'filename' and four entries per feature.
FileStats(file_features) ==
    [c \in {"filename"} \cup
           {Column(f, s) : f \in DOMAIN file_features, s \in StatNames} |->
        IF c = "filename" THEN "object" ELSE "float"]

\* np.max and np.min raise ValueError on an array without values.
StatsRaise(X) ==
    \E filename \in DOMAIN X :
        \E f \in DOMAIN X[filename] : X[filename][f] = "empty"

\* pd.DataFrame(feature_stats): one row per dict, the union of their keys as
\* columns.
DataFrame(feature_stats) ==
    LET names == UNION {DOMAIN feature_stats[k] : k \in DOMAIN feature_stats}
    IN  [rows |-> Cardinality(DOMAIN feature_stats),
         columns |-> [c \in names |->
                        IF c = "filename" THEN "object" ELSE "float"]]

DropColumn(df, feature) ==
    [rows |-> df.rows,
     columns |-> [c \in DOMAIN df.columns \ {feature} |-> df.columns[c]]]

\* A faulty loop: it stops after the first excluded feature.
DropFirstExcluded(df, excluded) ==
    IF excluded = <<>> \/ Head(excluded) \notin DOMAIN df.columns THEN df
    ELSE DropColumn(df, Head(excluded))

\* for feature in self.excluded_features:
\*     if feature in df.columns: df.drop(feature, axis=1, inplace=True)
RECURSIVE DropExcluded(_, _)
DropExcluded(df, excluded) ==
    IF excluded = <<>> THEN df
    ELSE LET feature == Head(excluded)
             dropped == IF feature \in DOMAIN df.columns
                        THEN DropColumn(df, feature) ELSE df
         IN  DropExcluded(dropped, Tail(excluded))

\* A faulty filter: the frame returned as it is, 'filename' included.
SelectAllDtypes(df) == df

\* df.select_dtypes(exclude=['object'])
SelectDtypesExcludeObject(df) ==
    [rows |-> df.rows,
     columns |-> [c \in {d \in DOMAIN df.columns : df.columns[d] # "object"} |->
                    df.columns[c]]]

FeatureStatisticsCalculator_transform(X, excluded_features) ==
    LET feature_stats == [filename \in DOMAIN X |-> FileStats(X[filename])]
    IN  SelectDtypesExcludeObject(
            DropExcluded(DataFrame(feature_stats), excluded_features))

\* excluded_features of create_pipeline.
excluded_features == <<"mel_spectrogram_min", "chroma_stft_max">>

\* The three stages of create_pipeline that follow AudioLoader.
PipelineFeatures(X) ==
    FeatureExtractor_transform(AudioTrimmer_transform(X, DefaultDurationMs))

(***************************************************************************)
(* SpecStats: the statistics step on the extractor's output and on         *)
(* arbitrary feature sets.                                                 *)
(***************************************************************************)
StatFiles == {"a.wav", "b.wav"}
\* Feature names an arbitrary feature set may hold: two of the pipeline's,
\* and two whose own names are those of the excluded columns.
NamePool == {"chroma_stft", "mel_spectrogram", "chroma_stft_max",
             "mel_spectrogram_min"}
ArrayKinds == {"array", "empty"}

StatInit ==
    /\ \E files \in SUBSET StatFiles :
          recordings \in [files -> [data : {<<>>, <<1>>}, sample_rate : {1}]]
    /\ features = NoFeatures
    /\ from_pipeline = FALSE
    /\ table = NoTable
    /\ stat_pc = "input"
    /\ audio = NoAudio
    /\ target_duration = DefaultDurationMs
    /\ trimmed = NoAudio
    /\ retrimmed = NoAudio
    /\ trim_pc = "input"
    /\ classes = <<>>
    /\ prediction = 0
    /\ probabilities = <<>>
    /\ result = NoResult
    /\ pred_pc = "loaded"
    /\ fs = NoFiles
    /\ model_exists = TRUE
    /\ pc = [r \in Requests |-> "idle"]
    /\ has_file = [r \in Requests |-> FALSE]
    /\ file_filename = [r \in Requests |-> ""]
    /\ loaded = [r \in Requests |-> <<>>]
    /\ response = [r \in Requests |-> NoResponse]
    /\ saved = [r \in Requests |-> FALSE]
    /\ wrote = [r \in Requests |-> FALSE]
    /\ invoked = [r \in Requests |-> FALSE]

\* The pipeline's own route to the statistics step.
Extract ==
    /\ stat_pc = "input"
    /\ features' = PipelineFeatures(recordings)
    /\ from_pipeline' = TRUE
    /\ stat_pc' = "features"
    /\ UNCHANGED <<recordings, table>>
    /\ UNCHANGED other_than_stat

\* Any other feature set: one more feature of one file.
GiveFeature(filename, f, kind) ==
    /\ stat_pc \in {"input", "given"}
    /\ features' =
         IF filename \in DOMAIN features
         THEN [features EXCEPT ![filename] = (f :> kind) @@ @]
         ELSE (filename :> (f :> kind)) @@ features
    /\ features' # features
    /\ stat_pc' = "given"
    /\ UNCHANGED <<recordings, from_pipeline, table>>
    /\ UNCHANGED other_than_stat

CalcStats ==
    /\ stat_pc \in {"features", "given"}
    /\ IF StatsRaise(features)
       THEN /\ stat_pc' = "raised"
            /\ table' = table
       ELSE /\ stat_pc' = "done"
            /\ table' = FeatureStatisticsCalculator_transform(
                            features, excluded_features)
    /\ UNCHANGED <<recordings, features, from_pipeline>>
    /\ UNCHANGED other_than_stat

StatNext ==
    \/ Extract
    \/ \E filename \in StatFiles, f \in NamePool, kind \in ArrayKinds :
          GiveFeature(filename, f, kind)
    \/ CalcStats

SpecStats == StatInit /\ [][StatNext]_vars

(***************************************************************************)
(* C3: whatever feature set the statistics step of create_pipeline is      *)
(* given, the table it returns holds neither mel_spectrogram_min nor       *)
(* chroma_stft_max.                                                        *)
(***************************************************************************)
C3_NoExcludedColumn ==
    stat_pc = "done" =>
        /\ "mel_spectrogram_min" \notin DOMAIN table.columns
        /\ "chroma_stft_max" \notin DOMAIN table.columns

\* A table computed from a given feature set that held both features whose
\* statistics are excluded: their other statistics are in the table.
C3_Witness ==
    /\ stat_pc = "done"
    /\ ~from_pipeline
    /\ "mel_spectrogram_max" \in DOMAIN table.columns
    /\ "chroma_stft_min" \in DOMAIN table.columns

(***************************************************************************)
(* C9: for one recording the pipeline's table has exactly one row and      *)
(* exactly the 30 columns mean, std, max and min of the eight features     *)
(* less mel_spectrogram_min and chroma_stft_max; 'filename' is not one of  *)
(* them.                                                                   *)
(***************************************************************************)
ThirtyColumns ==
    {"chroma_stft_mean", "chroma_stft_std", "chroma_stft_min",
     "mfcc_mean", "mfcc_std", "mfcc_max", "mfcc_min",
     "mel_spectrogram_mean", "mel_spectrogram_std", "mel_spectrogram_max",
     "spectral_contrast_mean", "spectral_contrast_std",
     "spectral_contrast_max", "spectral_contrast_min",
     "spectral_centroid_mean", "spectral_centroid_std",
     "spectral_centroid_max", "spectral_centroid_min",
     "spectral_bandwidth_mean", "spectral_bandwidth_std",
     "spectral_bandwidth_max", "spectral_bandwidth_min",
     "spectral_rolloff_mean", "spectral_rolloff_std",
     "spectral_rolloff_max", "spectral_rolloff_min",
     "zero_crossing_rate_mean", "zero_crossing_rate_std",
     "zero_crossing_rate_max", "zero_crossing_rate_min"}

C9_OneRowThirtyColumns ==
    (stat_pc = "done" /\ from_pipeline /\ Cardinality(DOMAIN recordings) = 1)
        => /\ table.rows = 1
           /\ DOMAIN table.columns = ThirtyColumns
           /\ Cardinality(DOMAIN table.columns) = 30
           /\ "filename" \notin DOMAIN table.columns

\* The pipeline has run on one recording.
C9_Witness ==
    /\ stat_pc = "done"
    /\ from_pipeline
    /\ Cardinality(DOMAIN recordings) = 1
    /\ table.rows = 1

(***************************************************************************)
(* predict_condition: from the classifier's answers to the returned dict.  *)
(*                                                                         *)
(* Class values are integers (the keys of LABEL_MAP are); a probability is *)
(* a whole number of 1/ProbUnits.                                          *)
(***************************************************************************)
LABEL_MAP ==
    [c \in 0..7 |->
        CASE c = 0 -> "Asthma"
          [] c = 1 -> "Bronchiectasis"
          [] c = 2 -> "Bronchiolitis"
          [] c = 3 -> "COPD"
          [] c = 4 -> "Pneumonia"
          [] c = 5 -> "LRTI"
          [] c = 6 -> "Healthy"
          [] c = 7 -> "URTI"]

\* str(c) of an integer: its decimal digits, "-" first when negative.
PyStr(c) == ToString(c)

\* A faulty lookup: the key is one too large.
LabelMapGetNext(c) ==
    IF c + 1 \in DOMAIN LABEL_MAP THEN LABEL_MAP[c + 1] ELSE PyStr(c)

\* A faulty lookup: one fixed name for every class LABEL_MAP does not hold.
LabelMapGetUnknown(c) ==
    IF c \in DOMAIN LABEL_MAP THEN LABEL_MAP[c] ELSE "Unknown"

\* LABEL_MAP.get(int(c), str(c))
LabelMapGet(c) ==
    IF c \in DOMAIN LABEL_MAP THEN LABEL_MAP[c] ELSE PyStr(c)

\* np.max of a sequence with at least one value.
NpMax(values) ==
    CHOOSE m \in {values[i] : i \in 1..Len(values)} :
        \A i \in 1..Len(values) : values[i] <= m

\* {LABEL_MAP.get(int(c), str(c)): float(p) for c, p in zip(classes, probabilities)}: a key met
\* again takes the later value.
DictOfZip(cs, ps) ==
    LET n == IF Len(cs) < Len(ps) THEN Len(cs) ELSE Len(ps)
        last(k) == CHOOSE i \in 1..n :
                     /\ LabelMapGet(cs[i]) = k
                     /\ \A j \in 1..n : LabelMapGet(cs[j]) = k => j <= i
    IN  [k \in {LabelMapGet(cs[i]) : i \in 1..n} |-> ps[last(k)]]

\* The dict returned at lines 133-140.
PredictionResult(pred, cs, ps) ==
    [prediction |-> LabelMapGet(pred),
     probability |-> NpMax(ps),
     all_probabilities |-> DictOfZip(cs, ps)]

(***************************************************************************)
(* SpecPredict: the inference of predict_condition for every bounded       *)
(* classifier.                                                             *)
(***************************************************************************)
MaxClass == 8      \* largest class value of a classifier
MaxClasses == 3    \* most classes of a classifier
ProbUnits == 4     \* a probability is k/ProbUnits

ClassValues == -1..MaxClass

\* classes_ is sorted and without repetition.
ClassLists ==
    UNION {{cs \in [1..n -> ClassValues] :
               \A i \in 1..n : \A j \in 1..n : i < j => cs[i] < cs[j]} :
           n \in 1..MaxClasses}

RECURSIVE Sum(_)
Sum(values) == IF values = <<>> THEN 0 ELSE Head(values) + Sum(Tail(values))

\* A row of predict_proba: one probability per class, summing to 1.
ProbabilityRows(n) == {ps \in [1..n -> 0..ProbUnits] : Sum(ps) = ProbUnits}

PredInit ==
    /\ classes \in ClassLists
    /\ prediction = 0
    /\ probabilities = <<>>
    /\ result = NoResult
    /\ pred_pc = "loaded"
    /\ audio = NoAudio
    /\ target_duration = DefaultDurationMs
    /\ trimmed = NoAudio
    /\ retrimmed = NoAudio
    /\ trim_pc = "input"
    /\ recordings = NoAudio
    /\ features = NoFeatures
    /\ from_pipeline = FALSE
    /\ table = NoTable
    /\ stat_pc = "input"
    /\ fs = NoFiles
    /\ model_exists = TRUE
    /\ pc = [r \in Requests |-> "idle"]
    /\ has_file = [r \in Requests |-> FALSE]
    /\ file_filename = [r \in Requests |-> ""]
    /\ loaded = [r \in Requests |-> <<>>]
    /\ response = [r \in Requests |-> NoResponse]
    /\ saved = [r \in Requests |-> FALSE]
    /\ wrote = [r \in Requests |-> FALSE]
    /\ invoked = [r \in Requests |-> FALSE]

\* Lines 129-140, for a classifier that answers pred and ps.
Infer(pred, ps) ==
    /\ pred_pc = "loaded"
    /\ prediction' = pred
    /\ probabilities' = ps
    /\ result' = PredictionResult(pred, classes, ps)
    /\ pred_pc' = "done"
    /\ UNCHANGED classes
    /\ UNCHANGED other_than_pred

\* The classifier predicts one of its classes; the rows are drawn only while
\* the inference has not run.
PredNext ==
    /\ pred_pc = "loaded"
    /\ \E i \in 1..Len(classes), ps \in ProbabilityRows(Len(classes)) :
          Infer(classes[i], ps)

SpecPredict == PredInit /\ [][PredNext]_vars

LabelNames ==
    {"Asthma", "Bronchiectasis", "Bronchiolitis", "COPD", "Pneumonia",
     "LRTI", "Healthy", "URTI"}

(***************************************************************************)
(* C4, as claimed: whatever class value the model predicts, the returned   *)
(* 'prediction' is one of the eight names of LABEL_MAP.                    *)
(***************************************************************************)
C4_PredictionAlwaysALabel ==
    pred_pc = "done" => result.prediction \in LabelNames

(***************************************************************************)
(* C4, amended: the returned 'prediction' is one of the eight names of     *)
(* LABEL_MAP when the predicted class value is one of 0..7, and the        *)
(* decimal string of the class value, which is none of the eight names,    *)
(* when it is any other integer.                                           *)
(***************************************************************************)
C4_PredictionLabelOrString ==
    pred_pc = "done" =>
        IF prediction \in 0..7
        THEN result.prediction \in LabelNames
        ELSE /\ result.prediction = ToString(prediction)
             /\ result.prediction \notin LabelNames

\* Both cases have happened: a class of LABEL_MAP was predicted by a
\* classifier that also has a class LABEL_MAP does not hold.
C4_Witness ==
    /\ pred_pc = "done"
    /\ prediction = 7
    /\ result.prediction = "URTI"
    /\ \E i \in 1..Len(classes) : classes[i] \notin 0..7

(***************************************************************************)
(* C5: the returned 'probability' is the largest value of the returned     *)
(* 'all_probabilities', which has one entry per class of the model.        *)
(***************************************************************************)
C5_ProbabilityIsMaxEntry ==
    pred_pc = "done" =>
        /\ \E k \in DOMAIN result.all_probabilities :
              result.all_probabilities[k] = result.probability
        /\ \A k \in DOMAIN result.all_probabilities :
              result.all_probabilities[k] <= result.probability
        /\ Cardinality(DOMAIN result.all_probabilities) = Len(classes)

\* A classifier of three classes, two of them outside LABEL_MAP, whose
\* largest probability is not that of its first class.
C5_Witness ==
    /\ pred_pc = "done"
    /\ Len(classes) = 3
    /\ Cardinality({i \in 1..3 : classes[i] \notin 0..7}) = 2
    /\ probabilities[1] < result.probability

(***************************************************************************)
(* The handler predict() and the temp directory its requests share.        *)
(*                                                                         *)
(* The upload of request r is the content <<r>>; a file opened for writing *)
(* and not yet written is the empty content <<>>.                          *)
(***************************************************************************)
\* tempfile.gettempdir()
temp_dir == "/tmp"

\* The filenames a client may send: two plain names, the absolute path of
\* the first inside the temp directory, and the empty name of a file part
\* sent without a file.
Filenames == {"a.wav", "b.wav", "/tmp/a.wav", ""}

\* os.path.isabs over Filenames.
IsAbs(name) == name = "/tmp/a.wav"

\* A faulty join: every upload goes to one fixed name of the temp directory.
JoinFixedName(dir, name) == dir \o "/" \o "upload.wav"

\* os.path.join(dir, name): an absolute name discards dir; otherwise the
\* name follows dir and a separator.
os_path_join(dir, name) ==
    IF IsAbs(name) THEN name ELSE dir \o "/" \o name

\* file_path of the handler, line 155.
FilePath(name) == os_path_join(temp_dir, name)

\* A path ending in the separator names the directory itself, which open()
\* refuses with IsADirectoryError.
IsADirectory(path) == path = temp_dir \o "/"

Upload(r) == <<r>>
EmptyFile == <<>>

\* open(dst, "wb") of FileStorage.save: the file is created or truncated.
OpenWb(files, path) == (path :> EmptyFile) @@ files

\* A faulty save: the file is removed once it has been written.
WriteThenRemove(files, path, content) ==
    [p \in DOMAIN files \ {path} |-> files[p]]

\* The copy of FileStorage.save into the opened file.
WriteAll(files, path, content) == (path :> content) @@ files

\* What an open for reading finds at path.
FileExists(files, path) == path \in DOMAIN files
ReadFile(files, path) == IF FileExists(files, path) THEN files[path] ELSE EmptyFile

\* jsonify(...) with its status.
JsonError(status) == [status |-> status, body |-> "error"]
JsonResult == [status |-> 200, body |-> "result"]

Respond(r, answer) ==
    /\ response' = [response EXCEPT ![r] = answer]
    /\ pc' = [pc EXCEPT ![r] = "done"]

Init ==
    /\ fs = NoFiles
    /\ model_exists \in BOOLEAN
    /\ pc = [r \in Requests |-> "idle"]
    /\ has_file = [r \in Requests |-> FALSE]
    /\ file_filename = [r \in Requests |-> ""]
    /\ loaded = [r \in Requests |-> EmptyFile]
    /\ response = [r \in Requests |-> NoResponse]
    /\ saved = [r \in Requests |-> FALSE]
    /\ wrote = [r \in Requests |-> FALSE]
    /\ invoked = [r \in Requests |-> FALSE]
    /\ audio = NoAudio
    /\ target_duration = DefaultDurationMs
    /\ trimmed = NoAudio
    /\ retrimmed = NoAudio
    /\ trim_pc = "input"
    /\ recordings = NoAudio
    /\ features = NoFeatures
    /\ from_pipeline = FALSE
    /\ table = NoTable
    /\ stat_pc = "input"
    /\ classes = <<>>
    /\ prediction = 0
    /\ probabilities = <<>>
    /\ result = NoResult
    /\ pred_pc = "loaded"

\* A POST arrives, with or without a 'file' part.
Receive(r, with_file, name) ==
    /\ pc[r] = "idle"
    /\ with_file \/ name = ""
    /\ has_file' = [has_file EXCEPT ![r] = with_file]
    /\ file_filename' = [file_filename EXCEPT ![r] = name]
    /\ pc' = [pc EXCEPT ![r] = "check"]
    /\ UNCHANGED <<fs, model_exists, loaded, response, saved, wrote, invoked>>
    /\ UNCHANGED other_than_http

\* Lines 150-151.
CheckFilePart(r) ==
    /\ pc[r] = "check"
    /\ IF has_file[r]
       THEN /\ pc' = [pc EXCEPT ![r] = "save"]
            /\ UNCHANGED response
       ELSE Respond(r, JsonError(400))
    /\ UNCHANGED <<fs, model_exists, has_file, file_filename, loaded, saved,
                   wrote, invoked>>
    /\ UNCHANGED other_than_http

\* Lines 153-156, file.save opening file_path: outside the try, so what it
\* raises leaves the handler.
SaveOpen(r) ==
    /\ pc[r] = "save"
    /\ IF IsADirectory(FilePath(file_filename[r]))
       THEN /\ pc' = [pc EXCEPT ![r] = "escaped"]
            /\ UNCHANGED <<fs, wrote>>
       ELSE /\ fs' = OpenWb(fs, FilePath(file_filename[r]))
            /\ wrote' = [wrote EXCEPT ![r] = TRUE]
            /\ pc' = [pc EXCEPT ![r] = "write"]
    /\ UNCHANGED <<model_exists, has_file, file_filename, loaded, response,
                   saved, invoked>>
    /\ UNCHANGED other_than_http

\* Line 156, file.save copying the upload; io_error is the write failing
\* (a full disk), which also leaves the handler.
SaveWrite(r, io_error) ==
    /\ pc[r] = "write"
    /\ IF io_error
       THEN /\ pc' = [pc EXCEPT ![r] = "escaped"]
            /\ UNCHANGED <<fs, saved>>
       ELSE /\ fs' = WriteAll(fs, FilePath(file_filename[r]), Upload(r))
            /\ saved' = [saved EXCEPT ![r] = TRUE]
            /\ pc' = [pc EXCEPT ![r] = "exists"]
    /\ UNCHANGED <<model_exists, has_file, file_filename, loaded, response,
                   wrote, invoked>>
    /\ UNCHANGED other_than_http

\* Lines 159 and 124-125: predict_condition is entered and looks for the
\* model; its FileNotFoundError is caught at line 161.
ModelExistsCheck(r) ==
    /\ pc[r] = "exists"
    /\ invoked' = [invoked EXCEPT ![r] = TRUE]
    /\ IF model_exists
       THEN /\ pc' = [pc EXCEPT ![r] = "load_model"]
            /\ UNCHANGED response
       ELSE Respond(r, JsonError(500))
    /\ UNCHANGED <<fs, model_exists, has_file, file_filename, loaded, saved,
                   wrote>>
    /\ UNCHANGED other_than_http

\* Line 126: joblib.load returns a model or raises.
JoblibLoad(r, raises) ==
    /\ pc[r] = "load_model"
    /\ IF raises
       THEN Respond(r, JsonError(500))
       ELSE /\ pc' = [pc EXCEPT ![r] = "load_audio"]
            /\ UNCHANGED response
    /\ UNCHANGED <<fs, model_exists, has_file, file_filename, loaded, saved,
                   wrote, invoked>>
    /\ UNCHANGED other_than_http

\* Line 128, AudioLoader.transform: librosa.load reads what is at file_path
\* now; it raises on a missing or empty file and on content that is no
\* audio.
AudioLoad(r, raises) ==
    /\ pc[r] = "load_audio"
    /\ LET content == ReadFile(fs, FilePath(file_filename[r]))
       IN  IF raises \/ content = EmptyFile
           THEN /\ Respond(r, JsonError(500))
                /\ UNCHANGED loaded
           ELSE /\ loaded' = [loaded EXCEPT ![r] = content]
                /\ pc' = [pc EXCEPT ![r] = "infer"]
                /\ UNCHANGED response
    /\ UNCHANGED <<fs, model_exists, has_file, file_filename, saved, wrote,
                   invoked>>
    /\ UNCHANGED other_than_http

\* Lines 128-140 and 160: the rest of the pipeline, the inference and
\* jsonify(result); whatever raises there is caught at line 161.
InferAndReturn(r, raises) ==
    /\ pc[r] = "infer"
    /\ Respond(r, IF raises THEN JsonError(500) ELSE JsonResult)
    /\ UNCHANGED <<fs, model_exists, has_file, file_filename, loaded, saved,
                   wrote, invoked>>
    /\ UNCHANGED other_than_http

Next ==
    \/ \E r \in Requests, with_file \in BOOLEAN, name \in Filenames :
          Receive(r, with_file, name)
    \/ \E r \in Requests : CheckFilePart(r)
    \/ \E r \in Requests : SaveOpen(r)
    \/ \E r \in Requests, io_error \in BOOLEAN : SaveWrite(r, io_error)
    \/ \E r \in Requests : ModelExistsCheck(r)
    \/ \E r \in Requests, raises \in BOOLEAN : JoblibLoad(r, raises)
    \/ \E r \in Requests, raises \in BOOLEAN : AudioLoad(r, raises)
    \/ \E r \in Requests, raises \in BOOLEAN : InferAndReturn(r, raises)

Spec == Init /\ [][Next]_vars

Finished(r) == pc[r] \in {"done", "escaped"}

(***************************************************************************)
(* C6, as claimed: a POST without a 'file' part is answered 400 with an    *)
(* 'error' body, and a POST with a file part while the model artifact does *)
(* not exist is answered 500 with an 'error' body.                         *)
(***************************************************************************)
C6_MissingFileOrModelAnswered ==
    \A r \in Requests :
        Finished(r) =>
            /\ ~has_file[r] => response[r] = [status |-> 400, body |-> "error"]
            /\ (has_file[r] /\ ~model_exists) =>
                  response[r] = [status |-> 500, body |-> "error"]

(***************************************************************************)
(* C7, as claimed: a request with a file part ends in 200 with the result  *)
(* or in 500 with an 'error' body, whichever step fails after the          *)
(* file-part check; no exception leaves the handler.                       *)
(***************************************************************************)
C7_EveryFailureCaught ==
    \A r \in Requests :
        (has_file[r] /\ Finished(r)) =>
            /\ pc[r] # "escaped"
            /\ \/ response[r] = [status |-> 200, body |-> "result"]
               \/ response[r] = [status |-> 500, body |-> "error"]

\* The two names are the same file of the temp directory: they are equal,
\* or one is the absolute path of the other there.
SameTempFile(name1, name2) ==
    \/ name1 = name2
    \/ {name1, name2} = {"a.wav", "/tmp/a.wav"}

(***************************************************************************)
(* C8, as claimed (its second sentence): when the filenames of two         *)
(* requests differ, each request's prediction is computed from its own     *)
(* upload in every interleaving.                                           *)
(***************************************************************************)
C8_DifferentNamesOwnUpload ==
    \A r \in Requests :
        (/\ loaded[r] # <<>>
         /\ \A o \in Requests \ {r} :
               has_file[o] => file_filename[o] # file_filename[r])
            => loaded[r] = <<r>>

(***************************************************************************)
(* C8, amended: two concurrent requests whose uploads carry the same       *)
(* filename use the same temp path, and in some interleaving one request's *)
(* prediction is computed from the other's upload.  When the two temp      *)
(* paths os.path.join(tempdir, filename) name different files, each        *)
(* request's prediction is computed from its own upload in every           *)
(* interleaving: a request reads content other than its own upload only if *)
(* it is the upload of a request whose filename names the same file.       *)
(***************************************************************************)
C8_ForeignUploadOnlyOnSharedPath ==
    \A r \in Requests :
        loaded[r] # <<>> =>
            \/ loaded[r] = <<r>>
            \/ \E o \in Requests \ {r} :
                  /\ has_file[o]
                  /\ SameTempFile(file_filename[o], file_filename[r])
                  /\ loaded[r] = <<o>>

\* Two requests with the same filename, the first answered 200 with a
\* prediction computed from the second's upload.
C8_Witness ==
    /\ has_file[1] /\ has_file[2]
    /\ file_filename[1] = file_filename[2]
    /\ response[1] = [status |-> 200, body |-> "result"]
    /\ loaded[1] = <<2>>

====
